---- MODULE Spec2Model ----
(***************************************************************************)
(* A model of dzconfig's translator (src/dzcongig/translator.py): the      *)
(* pipeline text -> tokens -> AST -> value -> TOML text run by run_cli.    *)
(* A text is a sequence of one-character strings; Python's 0-based         *)
(* indices are kept (text[i] of the code is text[i + 1] here).             *)
(***************************************************************************)
EXTENDS Integers, Sequences, FiniteSets, TLC

\* ------------------------------------------------------------ characters

LowerSeq == <<"a","b","c","d","e","f","g","h","i","j","k","l","m",
              "n","o","p","q","r","s","t","u","v","w","x","y","z">>
UpperSeq == <<"A","B","C","D","E","F","G","H","I","J","K","L","M",
              "N","O","P","Q","R","S","T","U","V","W","X","Y","Z">>
DigitSeq == <<"0","1","2","3","4","5","6","7","8","9">>

Range(s) == {s[k] : k \in DOMAIN s}

\* Two characters outside ASCII, each written as the string of its code
\* point: for both str.isdigit is true; int() takes ARABIC-INDIC DIGIT THREE
\* as the digit 3 and raises ValueError on SUPERSCRIPT TWO.
ArabicThree == "U+0663"
SuperscriptTwo == "U+00B2"

\* str.isspace, str.isalpha, str.isdigit, str.isalnum on the ASCII characters
\* and on these two
IsSpace(ch) == ch \in {" ", "\n", "\t"}
IsAlpha(ch) == ch \in Range(LowerSeq) \cup Range(UpperSeq)
IsDigit(ch) == ch \in Range(DigitSeq) \cup {ArabicThree, SuperscriptTwo}
IsAlnum(ch) == IsAlpha(ch) \/ IsDigit(ch)

\* str.lower
ToLower(ch) ==
    IF ch \in Range(UpperSeq)
    THEN LowerSeq[CHOOSE k \in DOMAIN UpperSeq : UpperSeq[k] = ch]
    ELSE ch

\* line 97: ch.isdigit() or ch.lower() in "abcdef"
IsHexDigit(ch) == IsDigit(ch) \/ ToLower(ch) \in {"a","b","c","d","e","f"}

\* the value of one character in int(s, 16)
HexDigitVal(ch) ==
    IF ch = ArabicThree THEN 3
    ELSE IF ch \in Range(DigitSeq)
    THEN (CHOOSE k \in DOMAIN DigitSeq : DigitSeq[k] = ch) - 1
    ELSE 9 + (CHOOSE k \in DOMAIN LowerSeq : LowerSeq[k] = ToLower(ch))

\* ---------------------------------------------------------------- lexer

\* F of the value of x, x evaluated once (a local name bound to a value)
With(x, F(_)) == CHOOSE y \in {F(a) : a \in {x}} : TRUE

\* class Token
Token(kind, value, line, col) ==
    [kind |-> kind, value |-> value, line |-> line, col |-> col]

NoToken == Token("none", <<>>, 0, 0)
NoErr == [kind |-> "none", msg |-> "none", name |-> <<>>, line |-> 0, col |-> 0]

LexerError(msg, line, col) ==
    [kind |-> "LexerError", msg |-> msg, name |-> <<>>, line |-> line, col |-> col]

\* Lexer.__init__
LexerInit == [i |-> 0, line |-> 1, col |-> 1]

\* Lexer.peek
LexPeek(text, lx, n) ==
    IF lx.i + n - 1 >= Len(text) THEN "" ELSE text[lx.i + n]

\* one round of the loop of Lexer.advance
LexAdvanceOne(text, lx) ==
    IF lx.i >= Len(text)
    THEN lx
    ELSE IF text[lx.i + 1] = "\n"
         THEN [i |-> lx.i + 1, line |-> lx.line + 1, col |-> 1]
         ELSE [i |-> lx.i + 1, line |-> lx.line, col |-> lx.col + 1]

\* Lexer.advance
RECURSIVE LexAdvance(_, _, _)
LexAdvance(text, lx, n) ==
    IF n = 0 THEN lx
    ELSE With(LexAdvanceOne(text, lx), LAMBDA l : LexAdvance(text, l, n - 1))

\* Lexer.skip_ws
RECURSIVE SkipWs(_, _)
SkipWs(text, lx) ==
    IF LexPeek(text, lx, 1) # "" /\ IsSpace(LexPeek(text, lx, 1))
    THEN With(LexAdvance(text, lx, 1), LAMBDA l : SkipWs(text, l))
    ELSE lx

LexOk(tok, lx) == [ok |-> TRUE, tok |-> tok, err |-> NoErr, lx |-> lx]
LexFail(err, lx) == [ok |-> FALSE, tok |-> NoToken, err |-> err, lx |-> lx]

\* the while loop of lex_ident_or_kw: the word and the lexer after the run
\* of alphanumeric characters
RECURSIVE IdentRun(_, _, _)
IdentRun(text, lx, s) ==
    IF LexPeek(text, lx, 1) # "" /\ IsAlnum(LexPeek(text, lx, 1))
    THEN With(LexAdvance(text, lx, 1),
              LAMBDA l : IdentRun(text, l, Append(s, LexPeek(text, lx, 1))))
    ELSE [word |-> s, lx |-> lx]

\* Lexer.lex_ident_or_kw
LexIdentOrKw(text, lx) ==
    IF LexPeek(text, lx, 1) = "" \/ ~IsAlpha(LexPeek(text, lx, 1))
    THEN LexFail(LexerError("name_expected", lx.line, lx.col), lx)
    ELSE With(IdentRun(text, lx, <<>>), LAMBDA r :
            IF r.word = <<"a","r","r","a","y">>
            THEN LexOk(Token("array", r.word, lx.line, lx.col), r.lx)
            ELSE IF r.word = <<"v","a","r">>
            THEN LexOk(Token("var", r.word, lx.line, lx.col), r.lx)
            ELSE LexOk(Token("IDENT", r.word, lx.line, lx.col), r.lx))

\* the while loop of lex_hex: the digits and the lexer after the run of hex
\* digits
RECURSIVE HexRun(_, _, _)
HexRun(text, lx, digits) ==
    IF LexPeek(text, lx, 1) # "" /\ IsHexDigit(LexPeek(text, lx, 1))
    THEN With(LexAdvance(text, lx, 1),
              LAMBDA l : HexRun(text, l, Append(digits, LexPeek(text, lx, 1))))
    ELSE [word |-> digits, lx |-> lx]

\* lex_hex reporting where the literal starts
HexErrorPosAtStart(start, lx) == start

\* the position a LexerError of lex_hex reports for a prefix with no digit
\* after it, the lexer being lx then and start where the literal starts
HexErrorPos(start, lx) == lx

\* Lexer.lex_hex
LexHex(text, lx) ==
    IF LexPeek(text, lx, 1) # "0" \/ ToLower(LexPeek(text, lx, 2)) # "x"
    THEN LexFail(LexerError("hex_expected", lx.line, lx.col), lx)
    ELSE With(HexRun(text, LexAdvance(text, lx, 2), <<>>), LAMBDA r :
            IF r.word = <<>>
            THEN LexFail(LexerError("hex_digits_expected",
                                    HexErrorPos(lx, r.lx).line,
                                    HexErrorPos(lx, r.lx).col), r.lx)
            ELSE LexOk(Token("HEX", r.word, lx.line, lx.col), r.lx))

\* the table `single` of next_token
SingleChars == {"{", "}", ";", "=", "(", ")", ",", "?", "[", "]"}

\* next_token returning a one-character token without advancing
NextTokenAtNoAdvance(text, lx) ==
    IF LexPeek(text, lx, 1) = ""
    THEN LexOk(Token("EOF", <<>>, lx.line, lx.col), lx)
    ELSE IF LexPeek(text, lx, 1) \in SingleChars
    THEN LexOk(Token(LexPeek(text, lx, 1), <<LexPeek(text, lx, 1)>>, lx.line, lx.col),
               lx)
    ELSE IF LexPeek(text, lx, 1) = "0" /\ ToLower(LexPeek(text, lx, 2)) = "x"
    THEN LexHex(text, lx)
    ELSE IF IsAlpha(LexPeek(text, lx, 1))
    THEN LexIdentOrKw(text, lx)
    ELSE LexFail(LexerError("unexpected_char", lx.line, lx.col), lx)

\* Lexer.next_token after skip_ws
NextTokenAt(text, lx) ==
    IF LexPeek(text, lx, 1) = ""
    THEN LexOk(Token("EOF", <<>>, lx.line, lx.col), lx)
    ELSE IF LexPeek(text, lx, 1) \in SingleChars
    THEN LexOk(Token(LexPeek(text, lx, 1), <<LexPeek(text, lx, 1)>>, lx.line, lx.col),
               LexAdvance(text, lx, 1))
    ELSE IF LexPeek(text, lx, 1) = "0" /\ ToLower(LexPeek(text, lx, 2)) = "x"
    THEN LexHex(text, lx)
    ELSE IF IsAlpha(LexPeek(text, lx, 1))
    THEN LexIdentOrKw(text, lx)
    ELSE LexFail(LexerError("unexpected_char", lx.line, lx.col), lx)

\* Lexer.next_token
NextToken(text, lx) == With(SkipWs(text, lx), LAMBDA l : NextTokenAt(text, l))

\* --------------------------------------------------------------- parser

Max(a, b) == IF a >= b THEN a ELSE b

\* AST nodes: NumberNode, ArrayNode, DictItemNode, MapNode, ConstRefNode,
\* ConstDeclNode, ProgramNode
NumberNode(value) == [t |-> "Number", value |-> value]
ArrayNode(items) == [t |-> "Array", items |-> items]
DictItemNode(key, value) == [key |-> key, value |-> value]
MapNode(items) == [t |-> "Map", items |-> items]
ConstRefNode(name) == [t |-> "ConstRef", name |-> name]
ConstDeclNode(name, value) == [name |-> name, value |-> value]
ProgramNode(consts, root) == [t |-> "Program", consts |-> consts, root |-> root]

NoNode == [t |-> "none"]

ParseError(msg, expected, tok) ==
    [kind |-> "ParseError", msg |-> msg, name |-> <<expected, tok.kind>>,
     line |-> tok.line, col |-> tok.col]

\* an exception that run_cli catches as Exception: the IndexError of
\* self.tokens[self.i], the ValueError of int()
InternalError(msg) ==
    [kind |-> "Exception", msg |-> msg, name |-> <<>>, line |-> 0, col |-> 0]

\* What a parser method leaves: st is "ok" (node is what it returns), or
\* "raise" (err is the exception); i is Parser.i, hi the largest index at
\* which self.tokens has been read so far (-1: none).
POk(i, hi, node) == [st |-> "ok", i |-> i, hi |-> hi, node |-> node, err |-> NoErr]
PRaise(i, hi, err) == [st |-> "raise", i |-> i, hi |-> hi, node |-> NoNode, err |-> err]

\* a statement after one that left r: an exception of r goes up, and F goes
\* on from what r returned
Then(r, F(_)) == CHOOSE y \in {IF a.st # "ok" THEN a ELSE F(a) : a \in {r}} : TRUE

\* Parser.peek: self.tokens[self.i]
ParserPeek(toks, i, hi) ==
    IF i >= Len(toks)
    THEN PRaise(i, Max(hi, i), InternalError("IndexError"))
    ELSE POk(i, Max(hi, i), toks[i + 1])

\* Parser.advance
ParserAdvance(toks, i, hi) ==
    IF i >= Len(toks)
    THEN PRaise(i, Max(hi, i), InternalError("IndexError"))
    ELSE POk(i + 1, Max(hi, i), toks[i + 1])

\* Parser.expect
Expect(toks, i, hi, kind) ==
    Then(ParserPeek(toks, i, hi), LAMBDA p :
        IF p.node.kind # kind
        THEN PRaise(i, p.hi, ParseError("expected", kind, p.node))
        ELSE ParserAdvance(toks, i, p.hi))

\* int(s, 16) returns: no character of s makes it raise ValueError
IntAccepts(s) == \A n \in DOMAIN s : s[n] # SuperscriptTwo

\* int(s, 16)
RECURSIVE HexValue(_)
HexValue(s) ==
    IF s = <<>> THEN 0
    ELSE 16 * HexValue(SubSeq(s, 1, Len(s) - 1)) + HexDigitVal(s[Len(s)])

\* Parser.parse_const_ref
ParseConstRef(toks, i, hi) ==
    Then(Expect(toks, i, hi, "?"), LAMBDA a :
    Then(Expect(toks, a.i, a.hi, "["), LAMBDA b :
    Then(Expect(toks, b.i, b.hi, "IDENT"), LAMBDA name_tok :
    Then(Expect(toks, name_tok.i, name_tok.hi, "]"), LAMBDA d :
    POk(d.i, d.hi, ConstRefNode(name_tok.node.value))))))

RECURSIVE ParseValue(_, _, _)
RECURSIVE ParseArrayItems(_, _, _, _)
RECURSIVE ParseDictItems(_, _, _, _)

\* the items of parse_array, from `if self.peek().kind != RPAREN` to the end
\* of the loop
ParseArrayBody(toks, i, hi) ==
    Then(ParserPeek(toks, i, hi), LAMBDA p :
        IF p.node.kind # ")"
        THEN Then(ParseValue(toks, i, p.hi), LAMBDA v :
                  ParseArrayItems(toks, v.i, v.hi, <<v.node>>))
        ELSE POk(i, p.hi, <<>>))

\* Parser.parse_array
ParseArray(toks, i, hi) ==
    Then(Expect(toks, i, hi, "array"), LAMBDA a :
    Then(Expect(toks, a.i, a.hi, "("), LAMBDA b :
    Then(ParseArrayBody(toks, b.i, b.hi), LAMBDA its :
    Then(Expect(toks, its.i, its.hi, ")"), LAMBDA c :
    POk(c.i, c.hi, ArrayNode(its.node))))))

\* the loop `while self.peek().kind == COMMA` of parse_array
ParseArrayItems(toks, i, hi, items) ==
    Then(ParserPeek(toks, i, hi), LAMBDA p :
        IF p.node.kind # "," THEN POk(i, p.hi, items) ELSE
    Then(ParserAdvance(toks, i, p.hi), LAMBDA a :
    Then(ParseValue(toks, a.i, a.hi), LAMBDA v :
    ParseArrayItems(toks, v.i, v.hi, Append(items, v.node)))))

\* Parser.parse_dict
ParseDict(toks, i, hi) ==
    Then(Expect(toks, i, hi, "{"), LAMBDA a :
    Then(ParseDictItems(toks, a.i, a.hi, <<>>), LAMBDA its :
    Then(Expect(toks, its.i, its.hi, "}"), LAMBDA c :
    POk(c.i, c.hi, MapNode(its.node)))))

\* the loop `while self.peek().kind != RBRACE` of parse_dict
ParseDictItems(toks, i, hi, items) ==
    Then(ParserPeek(toks, i, hi), LAMBDA p :
        IF p.node.kind = "}" THEN POk(i, p.hi, items) ELSE
    Then(Expect(toks, i, p.hi, "IDENT"), LAMBDA key_tok :
    Then(Expect(toks, key_tok.i, key_tok.hi, "="), LAMBDA e :
    Then(ParseValue(toks, e.i, e.hi), LAMBDA v :
    Then(Expect(toks, v.i, v.hi, ";"), LAMBDA s :
    ParseDictItems(toks, s.i, s.hi,
                   Append(items, DictItemNode(key_tok.node.value, v.node))))))))

\* Parser.parse_value
ParseValue(toks, i, hi) ==
    Then(ParserPeek(toks, i, hi), LAMBDA t :
        IF t.node.kind = "HEX"
        THEN Then(ParserAdvance(toks, i, t.hi), LAMBDA tok :
                  IF IntAccepts(tok.node.value)
                  THEN POk(tok.i, tok.hi, NumberNode(HexValue(tok.node.value)))
                  ELSE PRaise(tok.i, tok.hi, InternalError("ValueError")))
        ELSE IF t.node.kind = "array" THEN ParseArray(toks, i, t.hi)
        ELSE IF t.node.kind = "{" THEN ParseDict(toks, i, t.hi)
        ELSE IF t.node.kind = "?" THEN ParseConstRef(toks, i, t.hi)
        ELSE PRaise(i, t.hi, ParseError("value_expected", "value", t.node)))

\* parse_const_decl expecting a semicolon after the value
ParseConstDeclSemi(toks, i, hi) ==
    Then(Expect(toks, i, hi, "var"), LAMBDA a :
    Then(Expect(toks, a.i, a.hi, "IDENT"), LAMBDA ident :
    Then(Expect(toks, ident.i, ident.hi, "="), LAMBDA c :
    Then(ParseValue(toks, c.i, c.hi), LAMBDA val :
    Then(Expect(toks, val.i, val.hi, ";"), LAMBDA semi :
    POk(semi.i, semi.hi, ConstDeclNode(ident.node.value, val.node)))))))

\* Parser.parse_const_decl
ParseConstDecl(toks, i, hi) ==
    Then(Expect(toks, i, hi, "var"), LAMBDA a :
    Then(Expect(toks, a.i, a.hi, "IDENT"), LAMBDA ident :
    Then(Expect(toks, ident.i, ident.hi, "="), LAMBDA c :
    Then(ParseValue(toks, c.i, c.hi), LAMBDA val :
    POk(val.i, val.hi, ConstDeclNode(ident.node.value, val.node))))))

\* the loop `while self.peek().kind == KW_VAR` of parse_program
RECURSIVE ParseConsts(_, _, _, _)
ParseConsts(toks, i, hi, consts) ==
    Then(ParserPeek(toks, i, hi), LAMBDA p :
        IF p.node.kind # "var" THEN POk(i, p.hi, consts) ELSE
    Then(ParseConstDecl(toks, i, p.hi), LAMBDA d :
    ParseConsts(toks, d.i, d.hi, Append(consts, d.node))))

\* Parser.parse_program, from Parser.__init__ (self.i = 0)
ParseProgram(toks) ==
    Then(ParseConsts(toks, 0, -1, <<>>), LAMBDA cs :
    Then(ParseValue(toks, cs.i, cs.hi), LAMBDA root :
    Then(Expect(toks, root.i, root.hi, "EOF"), LAMBDA e :
    POk(e.i, e.hi, ProgramNode(cs.node, root.node)))))

\* ------------------------------------------------------------ evaluator

\* Values: a Python int, list or dict, tagged. A dict is the sequence of its
\* [k, v] entries in the dict's iteration order.
IntVal(n) == [t |-> "int", v |-> n]
ListVal(items) == [t |-> "list", items |-> items]
DictVal(items) == [t |-> "dict", items |-> items]
NoVal == [t |-> "none"]

\* a dict whose assignment moves the key it already holds to the end
DictSetMovingToEnd(d, k, v) ==
    Append(SelectSeq(d, LAMBDA e : e.k # k), [k |-> k, v |-> v])

\* `k in d`, `d[k]` and `d[k] = v` of a Python dict: assigning to a key the
\* dict already holds replaces its value where the key stands; a new key is
\* appended
DictHas(d, k) == \E n \in DOMAIN d : d[n].k = k
DictGet(d, k) == d[CHOOSE n \in DOMAIN d : d[n].k = k].v
DictSet(d, k, v) ==
    IF DictHas(d, k)
    THEN [n \in DOMAIN d |-> IF d[n].k = k THEN [k |-> k, v |-> v] ELSE d[n]]
    ELSE Append(d, [k |-> k, v |-> v])

EvalError(msg, name) ==
    [kind |-> "EvalError", msg |-> msg, name |-> name, line |-> 0, col |-> 0]

EOk(val) == [ok |-> TRUE, val |-> val, err |-> NoErr]
EFail(err) == [ok |-> FALSE, val |-> NoVal, err |-> err]

RECURSIVE EvalValue(_, _)
RECURSIVE EvalItems(_, _, _, _)
RECURSIVE EvalEntries(_, _, _, _)

\* the list comprehension of eval_value: items from index n on, after acc
EvalItems(consts, items, n, acc) ==
    IF n > Len(items) THEN EOk(ListVal(acc))
    ELSE With(EvalValue(consts, items[n]), LAMBDA r :
            IF ~r.ok THEN r
            ELSE EvalItems(consts, items, n + 1, Append(acc, r.val)))

\* the loop `for item in v.items` of eval_value: entries from index n on
EvalEntries(consts, items, n, result) ==
    IF n > Len(items) THEN EOk(DictVal(result))
    ELSE With(EvalValue(consts, items[n].value), LAMBDA r :
            IF ~r.ok THEN r
            ELSE With(DictSet(result, items[n].key, r.val), LAMBDA d :
                      EvalEntries(consts, items, n + 1, d)))

\* Evaluator.eval_value
EvalValue(consts, v) ==
    IF v.t = "Number" THEN EOk(IntVal(v.value))
    ELSE IF v.t = "Array" THEN EvalItems(consts, v.items, 1, <<>>)
    ELSE IF v.t = "Map" THEN EvalEntries(consts, v.items, 1, <<>>)
    ELSE IF v.t = "ConstRef"
    THEN IF ~DictHas(consts, v.name)
         THEN EFail(EvalError("unknown_constant", v.name))
         ELSE EOk(DictGet(consts, v.name))
    ELSE EFail(EvalError("unknown_value_type", <<>>))

\* eval_program binding the name (to 0) before it evaluates the value
EvalDeclStepBindingFirst(consts, decl) ==
    IF DictHas(consts, decl.name)
    THEN [ok |-> FALSE, consts |-> consts,
          err |-> EvalError("duplicate_constant", decl.name)]
    ELSE With(EvalValue(DictSet(consts, decl.name, IntVal(0)), decl.value), LAMBDA r :
            IF ~r.ok
            THEN [ok |-> FALSE, consts |-> consts, err |-> r.err]
            ELSE [ok |-> TRUE, consts |-> DictSet(consts, decl.name, r.val),
                  err |-> NoErr])

\* eval_program looking for the name in the table after it evaluated the value
EvalDeclStepCheckingLate(consts, decl) ==
    With(EvalValue(consts, decl.value), LAMBDA r :
        IF ~r.ok
        THEN [ok |-> FALSE, consts |-> consts, err |-> r.err]
        ELSE IF DictHas(consts, decl.name)
        THEN [ok |-> FALSE, consts |-> consts,
              err |-> EvalError("duplicate_constant", decl.name)]
        ELSE [ok |-> TRUE, consts |-> DictSet(consts, decl.name, r.val),
              err |-> NoErr])

\* one round of the loop of eval_program, on declaration decl: the symbol
\* table after it, or the EvalError
EvalDeclStep(consts, decl) ==
    IF DictHas(consts, decl.name)
    THEN [ok |-> FALSE, consts |-> consts,
          err |-> EvalError("duplicate_constant", decl.name)]
    ELSE With(EvalValue(consts, decl.value), LAMBDA r :
            IF ~r.ok
            THEN [ok |-> FALSE, consts |-> consts, err |-> r.err]
            ELSE [ok |-> TRUE, consts |-> DictSet(consts, decl.name, r.val),
                  err |-> NoErr])

\* -------------------------------------------------------------- emitter

\* str(n) of an int n >= 0
RECURSIVE IntStr(_)
IntStr(n) ==
    IF n < 10 THEN <<DigitSeq[n + 1]>>
    ELSE Append(IntStr(n \div 10), DigitSeq[(n % 10) + 1])

\* sep.join(parts)
RECURSIVE Join(_, _)
Join(sep, parts) ==
    IF parts = <<>> THEN <<>>
    ELSE IF Len(parts) = 1 THEN parts[1]
    ELSE parts[1] \o sep \o Join(sep, Tail(parts))

RECURSIVE EmitValue(_)

\* emit_inline_table, on the entries of a dict
EmitInlineTable(items) ==
    <<"{", " ">>
    \o Join(<<",", " ">>,
            [n \in DOMAIN items |->
                items[n].k \o <<" ", "=", " ">> \o EmitValue(items[n].v)])
    \o <<" ", "}">>

\* emit_value
EmitValue(v) ==
    IF v.t = "int" THEN IntStr(v.v)
    ELSE IF v.t = "list"
    THEN <<"[">>
         \o Join(<<",", " ">>, [n \in DOMAIN v.items |-> EmitValue(v.items[n])])
         \o <<"]">>
    ELSE EmitInlineTable(v.items)

\* the list `lines` of emit_root, for a dict root
RootLines(items) ==
    [n \in DOMAIN items |->
        IF items[n].v.t = "dict"
        THEN items[n].k \o <<" ", "=", " ">> \o EmitInlineTable(items[n].v.items)
        ELSE items[n].k \o <<" ", "=", " ">> \o EmitValue(items[n].v)]

\* emit_root ending the text of every dict with a newline
EmitRootAlwaysNewline(root) ==
    IF root.t = "dict"
    THEN Join(<<"\n">>, RootLines(root.items)) \o <<"\n">>
    ELSE <<"v","a","l","u","e"," ","="," ">> \o EmitValue(root) \o <<"\n">>

\* emit_root
EmitRoot(root) ==
    IF root.t = "dict"
    THEN IF RootLines(root.items) # <<>>
         THEN Join(<<"\n">>, RootLines(root.items)) \o <<"\n">>
         ELSE <<>>
    ELSE <<"v","a","l","u","e"," ","="," ">> \o EmitValue(root) \o <<"\n">>

\* --------------------------------------------------------------- inputs

MaxTextLen == 4
MaxToks == 2
MaxDecls == 2

\* every sequence over S of length at most n
SeqsUpTo(S, n) == UNION {[1..m -> S] : m \in 0..n}

\* the words of a text, one space between two of them
Words(ws) == Join(<<" ">>, ws)

\* texts of characters the lexer tells apart: the hex prefix in both cases,
\* a hex letter (x is a letter that is none), white space, a one-character
\* token, a digit that int() rejects
LexChars == {"0", "x", "X", "f", " ", "\n", ";", SuperscriptTwo}
CharTexts == SeqsUpTo(LexChars, MaxTextLen)

\* one lexeme of each token kind but end-of-input
KindWords ==
    {<<"v","a","r">>, <<"a","r","r","a","y">>, <<"a">>, <<"0","x","1">>}
    \cup {<<c>> : c \in SingleChars}
TokenTexts == {Words(ws) : ws \in SeqsUpTo(KindWords, MaxToks)}

W_var == <<"v","a","r">>
W_array == <<"a","r","r","a","y">>
W_ref(n) == <<<<"?">>, <<"[">>, <<n>>, <<"]">>>>
W_entry(k, v) == <<<<k>>, <<"=">>>> \o v \o <<<<";">>>>
W_hex(d) == <<<<"0", "x">> \o d>>

\* programs of the language, as their words
SamplePrograms ==
    { <<W_var, <<"x">>, <<"=">>>> \o W_hex(<<"1","0">>) \o W_ref("x"),
      <<<<"{">>>> \o W_entry("a", W_hex(<<"1">>)) \o W_entry("b", W_hex(<<"2">>))
          \o W_entry("a", W_hex(<<"3">>)) \o <<<<"}">>>>,
      <<<<"{">>>> \o W_entry("a", W_hex(<<"1">>)) \o W_entry("b", W_hex(<<"2">>))
          \o <<<<"}">>>>,
      <<W_array, <<"(">>>> \o W_hex(<<"1">>) \o <<<<",">>>> \o W_hex(<<"F","f">>)
          \o <<<<")">>>>,
      <<W_array, <<"(">>, <<"{">>>> \o W_entry("a", W_hex(<<"1">>))
          \o <<<<"}">>, <<")">>>>,
      <<<<"{">>, <<"}">>>>,
      <<W_var, <<"m">>, <<"=">>, <<"{">>>> \o W_entry("b", W_hex(<<"1">>))
          \o <<<<"}">>, <<"{">>>> \o W_entry("c", W_ref("m"))
          \o W_entry("d", <<W_array, <<"(">>, <<")">>>>) \o <<<<"}">>>> }

\* a program with one word dropped, one word put in, or one word replaced
Edits(p) ==
    {SubSeq(p, 1, n - 1) \o SubSeq(p, n + 1, Len(p)) : n \in 1..Len(p)}
    \cup {SubSeq(p, 1, n) \o <<w>> \o SubSeq(p, n + 1, Len(p)) :
             n \in 0..Len(p), w \in KindWords}
    \cup {[p EXCEPT ![n] = w] : n \in 1..Len(p), w \in KindWords}
EditedTexts ==
    {Words(q) : q \in SamplePrograms \cup UNION {Edits(p) : p \in SamplePrograms}}

\* programs of at most MaxDecls declarations of the names a and b, whose
\* values refer to a, b and the never declared z
DeclNames == {"a", "b"}
ValueWords ==
    { W_hex(<<"1">>), W_ref("a"), W_ref("b"),
      <<<<"{">>>> \o W_entry("a", W_ref("z")) \o <<<<"}">>>> }
DeclWords == {<<W_var, <<n>>, <<"=">>>> \o v : n \in DeclNames, v \in ValueWords}
RECURSIVE Flatten(_)
Flatten(ss) == IF ss = <<>> THEN <<>> ELSE ss[1] \o Flatten(Tail(ss))
ProgramTexts ==
    {Words(Flatten(ds) \o r) : ds \in SeqsUpTo(DeclWords, MaxDecls), r \in ValueWords}

\* texts of the specification's examples, character by character
\* section 8: constant resolution, as the spec writes it: var x = 0x10; ?[x]
Ex_VarSemiRoot ==
    <<"v","a","r"," ","x"," ","="," ","0","x","1","0",";"," ","?","[","x",
      "]">>
\* the same without the semicolon: var x = 0x10 ?[x]
Ex_VarRoot ==
    <<"v","a","r"," ","x"," ","="," ","0","x","1","0"," ","?","[","x","]">>
\* a key repeated after another key: { a = 0x1; b = 0x2; a = 0x3; }
Ex_DupKeys ==
    <<"{"," ","a"," ","="," ","0","x","1",";"," ","b"," ","="," ","0","x","2",
      ";"," ","a"," ","="," ","0","x","3",";"," ","}">>
\* section 8: last write wins: { a = 0x1; a = 0x2; }
Ex_DupKey ==
    <<"{"," ","a"," ","="," ","0","x","1",";"," ","a"," ","="," ","0","x","2",
      ";"," ","}">>
\* section 8: key order: { a = 0x1; b = 0x2; }
Ex_TwoKeys ==
    <<"{"," ","a"," ","="," ","0","x","1",";"," ","b"," ","="," ","0","x","2",
      ";"," ","}">>
\* section 8: missing semicolon: { a = 0x1 }
Ex_NoSemi ==
    <<"{"," ","a"," ","="," ","0","x","1"," ","}">>
\* section 8: nested structures: array({ a = 0x1; })
Ex_Nested ==
    <<"a","r","r","a","y","(","{"," ","a"," ","="," ","0","x","1",";"," ","}",
      ")">>
\* section 8: round trip on structure: array(0x1, 0x2, 0x3)
Ex_Array ==
    <<"a","r","r","a","y","(","0","x","1",","," ","0","x","2",","," ","0","x",
      "3",")">>
\* a trailing comma: array(0x1,)
Ex_TrailingComma ==
    <<"a","r","r","a","y","(","0","x","1",",",")">>
\* a declaration after the root value: 0x1 var a = 0x2
Ex_TrailingVar ==
    <<"0","x","1"," ","v","a","r"," ","a"," ","="," ","0","x","2">>
\* section 8: malformed hex: 0xg
Ex_BadHex == <<"0","x","g">>
\* a prefix without digits on the second line: { a = 0x1;\n  b = 0Xg; }
Ex_BadHexDeep ==
    <<"{"," ","a"," ","="," ","0","x","1",";","\n"," "," ","b"," ","="," ",
      "0","X","g",";"," ","}">>
\* a second var x whose value refers to an unknown constant: var x = 0x1 var x = ?[q] ?[x]
Ex_DupDecl ==
    <<"v","a","r"," ","x"," ","="," ","0","x","1"," ","v","a","r"," ","x"," ",
      "="," ","?","[","q","]"," ","?","[","x","]">>
\* a reference to a name declared before and again after it: var a = 0x1 var b = ?[a] var a = 0x2 ?[b]
Ex_Shadowed ==
    <<"v","a","r"," ","a"," ","="," ","0","x","1"," ","v","a","r"," ","b"," ",
      "="," ","?","[","a","]"," ","v","a","r"," ","a"," ","="," ","0","x","2",
      " ","?","[","b","]">>
\* section 8: forward reference: var a = ?[b] var b = 0x1 ?[a]
Ex_Forward ==
    <<"v","a","r"," ","a"," ","="," ","?","[","b","]"," ","v","a","r"," ","b",
      " ","="," ","0","x","1"," ","?","[","a","]">>
\* a root that is a map through a constant: var m = { b = 0x1; a = ?[n]; } with n = 0x2 before it
Ex_MapThroughRef ==
    <<"v","a","r"," ","n"," ","="," ","0","x","2"," ","v","a","r"," ","m"," ",
      "="," ","{"," ","b"," ","="," ","0","x","1",";"," ","a"," ","="," ","?",
      "[","n","]",";"," ","}"," ","?","[","m","]">>
\* digits outside ASCII in a literal and in a key: { aU+00B2 = 0x1U+0663; }
Ex_ArabicDigit ==
    <<"{"," ","a",SuperscriptTwo," ","="," ","0","x","1",ArabicThree,";"," ",
      "}">>
\* a digit that int() rejects in the literal of a declaration: var a = 0x1U+00B2 ?[a]
Ex_SuperscriptDigit ==
    <<"v","a","r"," ","a"," ","="," ","0","x","1",SuperscriptTwo," ","?","[",
      "a","]">>
ExampleTexts ==
    {Ex_VarSemiRoot, Ex_VarRoot, Ex_DupKeys, Ex_DupKey, Ex_TwoKeys, Ex_NoSemi, Ex_Nested,
     Ex_Array, Ex_TrailingComma, Ex_TrailingVar, Ex_BadHex, Ex_BadHexDeep, Ex_DupDecl, Ex_Shadowed,
     Ex_Forward, Ex_MapThroughRef, Ex_ArabicDigit, Ex_SuperscriptDigit}

InputTexts ==
    CharTexts \cup TokenTexts \cup EditedTexts \cup ProgramTexts \cup ExampleTexts

\* ---------------------------------------------------------------- state

VARIABLES
    pc,         \* where run_cli is: read, lex, parse, eval, emit, write, done
    infile,     \* the text that the input path holds, when it holds one
    src,        \* run_cli's src
    lx,         \* the Lexer's i, line, col
    tokens,     \* Lexer.tokenize's tokens
    pres,       \* what Parser.parse_program left
    k,          \* how many declarations eval_program has gone through
    consts,     \* Evaluator.consts
    root_val,   \* run_cli's root_val
    toml_text,  \* run_cli's toml_text
    outfile,    \* the output path: opened by this run, and what it wrote
    rc,         \* run_cli's return value, -1 when it has returned none
    err         \* the exception caught

vars == <<pc, infile, src, lx, tokens, pres, k, consts, root_val, toml_text,
          outfile, rc, err>>

NoParse == PRaise(0, -1, NoErr)
OSError(msg) == [kind |-> "OSError", msg |-> msg, name |-> <<>>, line |-> 0, col |-> 0]
\* an exception that no except clause of run_cli catches
Uncaught(msg) == [kind |-> "Uncaught", msg |-> msg, name |-> <<>>, line |-> 0, col |-> 0]

Init ==
    /\ pc = "read"
    /\ infile \in InputTexts
    /\ src = <<>>
    /\ lx = LexerInit
    /\ tokens = <<>>
    /\ pres = NoParse
    /\ k = 0
    /\ consts = <<>>
    /\ root_val = NoVal
    /\ toml_text = <<>>
    /\ outfile = [opened |-> FALSE, content |-> <<>>]
    /\ rc = -1
    /\ err = NoErr

\* run_cli returns code with the exception e caught
Return(code, e) == pc' = "done" /\ rc' = code /\ err' = e

\* lines 334-336: the input is read
ReadInput ==
    /\ pc = "read"
    /\ src' = infile
    /\ pc' = "lex"
    /\ UNCHANGED <<infile, lx, tokens, pres, k, consts, root_val, toml_text,
                   outfile, rc, err>>

\* lines 337-339: open or read raises OSError
ReadFail ==
    /\ pc = "read"
    /\ Return(2, OSError("read"))
    /\ UNCHANGED <<infile, src, lx, tokens, pres, k, consts, root_val, toml_text,
                   outfile>>

\* line 336: the bytes of the input are not UTF-8, so f.read() raises
\* UnicodeDecodeError, a ValueError and no OSError: the exception leaves
\* run_cli, which returns nothing
ReadUndecodable ==
    /\ pc = "read"
    /\ pc' = "done"
    /\ err' = Uncaught("UnicodeDecodeError")
    /\ UNCHANGED <<infile, src, lx, tokens, pres, k, consts, root_val, toml_text,
                   outfile, rc>>

\* one round of the loop of Lexer.tokenize; a LexerError ends run_cli
\* (lines 349-351)
LexStep ==
    /\ pc = "lex"
    /\ \E r \in {NextToken(src, lx)} :
           /\ lx' = r.lx
           /\ IF r.ok
              THEN /\ tokens' = Append(tokens, r.tok)
                   /\ pc' = IF r.tok.kind = "EOF" THEN "parse" ELSE "lex"
                   /\ UNCHANGED <<rc, err>>
              ELSE /\ Return(1, r.err)
                   /\ UNCHANGED tokens
    /\ UNCHANGED <<infile, src, pres, k, consts, root_val, toml_text, outfile>>

\* the return code of the except clauses of lines 349-357
CodeOf(e) ==
    IF e.kind \in {"LexerError", "ParseError", "EvalError"} THEN 1 ELSE 3

\* lines 344-345: Parser(tokens).parse_program()
Parse ==
    /\ pc = "parse"
    /\ \E r \in {ParseProgram(tokens)} :
           /\ pres' = r
           /\ IF r.st = "ok"
              THEN pc' = "eval" /\ UNCHANGED <<rc, err>>
              ELSE Return(CodeOf(r.err), r.err)
    /\ UNCHANGED <<infile, src, lx, tokens, k, consts, root_val, toml_text, outfile>>

\* one round of the loop of eval_program
EvalDecl ==
    /\ pc = "eval"
    /\ k < Len(pres.node.consts)
    /\ \E r \in {EvalDeclStep(consts, pres.node.consts[k + 1])} :
           /\ consts' = r.consts
           /\ IF r.ok
              THEN k' = k + 1 /\ UNCHANGED <<pc, rc, err>>
              ELSE Return(CodeOf(r.err), r.err) /\ UNCHANGED k
    /\ UNCHANGED <<infile, src, lx, tokens, pres, root_val, toml_text, outfile>>

\* line 277: the root value, after the declarations
EvalRoot ==
    /\ pc = "eval"
    /\ k = Len(pres.node.consts)
    /\ \E r \in {EvalValue(consts, pres.node.root)} :
           IF r.ok
           THEN root_val' = r.val /\ pc' = "emit" /\ UNCHANGED <<rc, err>>
           ELSE Return(CodeOf(r.err), r.err) /\ UNCHANGED root_val
    /\ UNCHANGED <<infile, src, lx, tokens, pres, k, consts, toml_text, outfile>>

\* line 348
Emit ==
    /\ pc = "emit"
    /\ toml_text' = EmitRoot(root_val)
    /\ pc' = "write"
    /\ UNCHANGED <<infile, src, lx, tokens, pres, k, consts, root_val, outfile,
                   rc, err>>

\* lines 359-361 and 366: the output is opened and written
WriteOutput ==
    /\ pc = "write"
    /\ outfile' = [opened |-> TRUE, content |-> toml_text]
    /\ pc' = "done"
    /\ rc' = 0
    /\ UNCHANGED <<infile, src, lx, tokens, pres, k, consts, root_val, toml_text,
                   err>>

\* lines 362-364: open raises OSError (the path is left as it was), or write
\* does (the path was opened for writing, so emptied)
WriteFail ==
    /\ pc = "write"
    /\ \E opened \in BOOLEAN : outfile' = [opened |-> opened, content |-> <<>>]
    /\ Return(2, OSError("write"))
    /\ UNCHANGED <<infile, src, lx, tokens, pres, k, consts, root_val, toml_text>>

Next ==
    \/ ReadInput
    \/ ReadFail
    \/ ReadUndecodable
    \/ LexStep
    \/ Parse
    \/ EvalDecl
    \/ EvalRoot
    \/ Emit
    \/ WriteOutput
    \/ WriteFail

Spec == Init /\ [][Next]_vars

\* run_cli runs on: nothing in it waits
FairSpec == Spec /\ WF_vars(Next)

\* --------------------------------------------------------------- claims

\* run_cli has ended after it read the input
Ended == pc = "done" /\ err.kind \notin {"OSError", "Uncaught"}

Untouched == [opened |-> FALSE, content |-> <<>>]
\* parse_program has returned or raised
Parsed == pres.hi >= 0
\* what ended run_cli: the input could not be read; lexing, parsing or
\* evaluation failed
ReadFailed ==
    pc = "done" /\ src = <<>> /\ tokens = <<>>
    /\ (err.kind = "Uncaught" \/ (err.kind = "OSError" /\ err.msg = "read"))
StageFailed ==
    pc = "done" /\ (err.kind \in {"LexerError", "EvalError"}
                    \/ (Parsed /\ pres.st = "raise"))

\* C1: run_cli returns 0, with the emitted text written to the output, only
\* when reading, lexing, parsing, evaluation and emission all succeeded; when
\* lexing, parsing or evaluation fails it returns 1 and when the input cannot
\* be read it returns 2, and in both cases the output was never opened or
\* written.
C1_ExitCodes ==
    /\ rc = 0 =>
          /\ pc = "done" /\ err = NoErr /\ src = infile
          /\ tokens # <<>> /\ tokens[Len(tokens)].kind = "EOF"
          /\ pres.st = "ok" /\ k = Len(pres.node.consts) /\ root_val.t # "none"
          /\ toml_text = EmitRoot(root_val)
          /\ outfile = [opened |-> TRUE, content |-> toml_text]
    /\ StageFailed => rc = 1 /\ outfile = Untouched
    /\ ReadFailed => rc = 2 /\ outfile = Untouched

\* the part of C1 on the output, which holds: the output is opened only
\* after every stage succeeded, 0 is returned only with the emitted text
\* written, and 1 is returned exactly on a LexerError, ParseError or EvalError.
C1_OutputOnlyOnSuccess ==
    /\ outfile.opened =>
          /\ pc = "done" /\ rc \in {0, 2} /\ src = infile
          /\ pres.st = "ok" /\ k = Len(pres.node.consts) /\ root_val.t # "none"
          /\ toml_text = EmitRoot(root_val)
    /\ rc = 0 => outfile = [opened |-> TRUE, content |-> toml_text]
    /\ rc = 1 <=> err.kind \in {"LexerError", "ParseError", "EvalError"}
    /\ (StageFailed \/ ReadFailed) => outfile = Untouched

\* parsing has failed and run_cli returned 3
C1_Witness ==
    pc = "done" /\ rc = 3 /\ Parsed /\ pres.st = "raise" /\ outfile = Untouched

\* C2 as the specification states it: `var x = 0x10; ?[x]` passes lexing,
\* parsing and evaluation and evaluates to 16.
C2_SemicolonExample ==
    (infile = Ex_VarSemiRoot /\ Ended) => (rc # 1 /\ root_val = IntVal(16))

\* every declaration of the program has been evaluated
DeclsDone == pres.st = "ok" /\ k = Len(pres.node.consts)

\* C2, amended: `var x = 0x10 ?[x]` (no semicolon: a declaration is
\* var NAME = value, and the root value follows it directly) passes lexing,
\* parsing and evaluation and evaluates to 16, while `var x = 0x10; ?[x]` is
\* a parse error at the semicolon (line 1, column 13); and every constant a
\* program declares is bound when its root value is evaluated, a root `?[n]`
\* evaluating to the value of n's declaration.
C2_ConstVisibleToRoot ==
    /\ (infile = Ex_VarRoot /\ Ended) =>
          /\ rc # 1 /\ root_val = IntVal(16)
          /\ toml_text = <<"v","a","l","u","e"," ","="," ","1","6","\n">>
    /\ (infile = Ex_VarSemiRoot /\ Ended) =>
          /\ rc = 1 /\ root_val = NoVal
          /\ err = ParseError("value_expected", "value", Token(";", <<";">>, 1, 13))
    /\ DeclsDone =>
          /\ \A n \in DOMAIN pres.node.consts :
                DictHas(consts, pres.node.consts[n].name)
          /\ (root_val.t # "none" /\ pres.node.root.t = "ConstRef") =>
                \E n \in DOMAIN pres.node.consts :
                   /\ pres.node.consts[n].name = pres.node.root.name
                   /\ consts[n].k = pres.node.root.name
                   /\ root_val = consts[n].v

\* `var x = 0x10 ?[x]` has been translated
C2_Witness == infile = Ex_VarRoot /\ rc = 0 /\ root_val = IntVal(16)

\* the keys of the entries es (of a map node or of a dict), in order
KeysOf(es, key(_)) == [n \in DOMAIN es |-> key(es[n])]
\* the keys of a map node at their last, and at their first, occurrence
LastOccurrences(items) ==
    KeysOf(SelectSeq([n \in DOMAIN items |-> [key |-> items[n].key, n |-> n]],
                     LAMBDA e : \A m \in DOMAIN items :
                                   items[m].key = e.key => m <= e.n),
           LAMBDA e : e.key)
FirstOccurrences(items) ==
    KeysOf(SelectSeq([n \in DOMAIN items |-> [key |-> items[n].key, n |-> n]],
                     LAMBDA e : \A m \in DOMAIN items :
                                   items[m].key = e.key => m >= e.n),
           LAMBDA e : e.key)

\* the root is a map node and has been evaluated
RootMapDone == DeclsDone /\ root_val.t # "none" /\ pres.node.root.t = "Map"

\* C3 as the specification states it: a repeated key takes the position of
\* its last occurrence ({ a = 0x1; b = 0x2; a = 0x3; } gives b, a).
C3_FinalPosition ==
    RootMapDone =>
       KeysOf(root_val.items, LAMBDA e : e.k) = LastOccurrences(pres.node.root.items)

\* C3, amended: the map has exactly one entry for a repeated key, its value
\* is the value of the key's last occurrence, and its position among the keys
\* is that of the key's FIRST occurrence ({ a = 0x1; b = 0x2; a = 0x3; }
\* gives a, b with a = 3).
C3_LastValueFirstPosition ==
    /\ RootMapDone =>
          /\ KeysOf(root_val.items, LAMBDA e : e.k)
                = FirstOccurrences(pres.node.root.items)
          /\ \A n \in DOMAIN pres.node.root.items :
                pres.node.root.items[n].key
                    \notin {pres.node.root.items[m].key :
                               m \in n + 1 .. Len(pres.node.root.items)}
                => DictGet(root_val.items, pres.node.root.items[n].key)
                      = EvalValue(consts, pres.node.root.items[n].value).val
    /\ (infile = Ex_DupKeys /\ Ended) =>
          root_val = DictVal(<<[k |-> <<"a">>, v |-> IntVal(3)],
                               [k |-> <<"b">>, v |-> IntVal(2)]>>)
    /\ (infile = Ex_DupKey /\ Ended) =>
          root_val = DictVal(<<[k |-> <<"a">>, v |-> IntVal(2)]>>)

\* { a = 0x1; b = 0x2; a = 0x3; } has been evaluated
C3_Witness ==
    /\ infile = Ex_DupKeys /\ rc = 0
    /\ KeysOf(root_val.items, LAMBDA e : e.k) = <<<<"a">>, <<"b">>>>

\* line and column (1-based) of the character at 0-based index p of text
LineAt(text, p) == 1 + Cardinality({n \in 1..p : text[n] = "\n"})
ColAt(text, p) ==
    LET nl == {0} \cup {n \in 1..p : text[n] = "\n"}
    IN  p + 1 - (CHOOSE n \in nl : \A m \in nl : m <= n)

\* the lexer is about to read, after white space, a prefix 0x or 0X; p is
\* the index of the 0
PrefixAt(p) ==
    /\ pc = "lex"
    /\ p \in lx.i .. Len(src) - 2
    /\ \A n \in lx.i + 1 .. p : IsSpace(src[n])
    /\ src[p + 1] = "0" /\ src[p + 2] \in {"x", "X"}
\* no character follows the prefix that lex_hex takes for a digit
BarePrefixAt(p) ==
    PrefixAt(p) /\ (p + 2 < Len(src) => ~IsHexDigit(src[p + 3]))

RECURSIVE Refs(_)
Refs(v) ==
    IF v.t = "ConstRef" THEN <<v.name>>
    ELSE IF v.t = "Array" THEN Flatten([n \in DOMAIN v.items |-> Refs(v.items[n])])
    ELSE IF v.t = "Map" THEN Flatten([n \in DOMAIN v.items |-> Refs(v.items[n].value)])
    ELSE <<>>

Decls == pres.node.consts
\* the names declared before declaration i; the root value is step
\* Len(Decls) + 1
NamesBefore(i) == {Decls[j].name : j \in 1 .. i - 1}
StepValue(i) == IF i <= Len(Decls) THEN Decls[i].value ELSE pres.node.root
\* the references of step i to names no earlier declaration binds
Unbound(i) == SelectSeq(Refs(StepValue(i)), LAMBDA n : n \notin NamesBefore(i))
Redeclares(i) == i <= Len(Decls) /\ Decls[i].name \in NamesBefore(i)
StepFails(i) == Redeclares(i) \/ Unbound(i) # <<>>
\* eval_program has returned or raised
EvalEnded == pres.st = "ok" /\ pc \in {"emit", "write", "done"}

\* C5 as the specification states it: a reference in declaration i to the
\* name of a declaration j >= i, or anywhere to a never declared name, makes
\* eval_program fail with the unknown-constant error.
C5_ForwardReferenceFails ==
    EvalEnded =>
       \A i \in 1 .. Len(Decls) + 1 :
          \A r \in DOMAIN Refs(StepValue(i)) :
             LET n == Refs(StepValue(i))[r]
             IN  (\/ \E j \in i .. Len(Decls) : Decls[j].name = n
                  \/ \A j \in 1 .. Len(Decls) : Decls[j].name # n)
                 => err.kind = "EvalError" /\ err.msg = "unknown_constant"

\* C5, amended: eval_program fails at the first step, in evaluation order,
\* that is a declaration of a name an earlier declaration bound (the
\* duplicate-constant error) or holds a reference to a name no earlier
\* declaration bound: a self reference, a forward reference or a never
\* declared name (the unknown-constant error naming it). A reference to a
\* name declared before it resolves, also when a later declaration repeats
\* the name. An EvalError is one of these two, never a cycle or forward
\* reference error.
C5_FirstUnboundReferenceFails ==
    /\ pc = "eval" => \A i \in 1..k : ~StepFails(i)
    /\ EvalEnded =>
          IF \E i \in 1 .. Len(Decls) + 1 : StepFails(i)
          THEN LET f == CHOOSE i \in 1 .. Len(Decls) + 1 :
                           StepFails(i) /\ \A j \in 1 .. i - 1 : ~StepFails(j)
               IN  /\ pc = "done" /\ rc = 1 /\ k = f - 1 /\ root_val = NoVal
                   /\ err = IF Redeclares(f)
                            THEN EvalError("duplicate_constant", Decls[f].name)
                            ELSE EvalError("unknown_constant", Unbound(f)[1])
          ELSE root_val.t # "none" /\ err.kind # "EvalError"

\* a reference to a name that is declared only later has failed
C5_Witness ==
    /\ EvalEnded /\ pc = "done" /\ err.msg = "unknown_constant"
    /\ \E j \in k + 2 .. Len(Decls) : Decls[j].name = err.name

\* C6: eval_program goes through the declarations in source order; a
\* declaration whose name is in the symbol table is rejected with the
\* duplicate-constant error naming it, before its value is evaluated; so every
\* name of the table was bound exactly once, by its declaration, and an entry
\* of the table is never changed or removed.
C6_DeclaredOnce ==
    /\ [](pres.st = "ok" =>
            /\ Len(consts) = k /\ k <= Len(Decls)
            /\ \A n \in 1..k : consts[n].k = Decls[n].name
            /\ \A n, m \in 1..k : consts[n].k = consts[m].k => n = m)
    /\ [][/\ Len(consts') >= Len(consts)
          /\ \A n \in DOMAIN consts : consts'[n] = consts[n]
          /\ (pc = "eval" /\ k < Len(Decls)) =>
                IF DictHas(consts, Decls[k + 1].name)
                THEN /\ pc' = "done" /\ rc' = 1 /\ consts' = consts
                     /\ err' = EvalError("duplicate_constant", Decls[k + 1].name)
                ELSE \/ /\ pc' = "eval" /\ k' = k + 1
                        /\ Len(consts') = k + 1
                        /\ consts'[k + 1].k = Decls[k + 1].name
                     \/ /\ pc' = "done" /\ consts' = consts
                        /\ err'.msg = "unknown_constant"]_vars

\* a second declaration of a name has been rejected, whose value refers to
\* an unknown constant
C6_Witness ==
    /\ pc = "done" /\ pres.st = "ok" /\ err.msg = "duplicate_constant"
    /\ k >= 1 /\ Decls[k + 1].name = err.name
    /\ Unbound(k + 1) # <<>>

\* how many characters of the text the tokens took: a hex token its digits
\* and the prefix, any other its value
TokenChars(toks) ==
    Len(Flatten([n \in DOMAIN toks |->
                    IF toks[n].kind = "HEX" THEN <<"0", "x">> \o toks[n].value
                    ELSE toks[n].value]))

\* the end-of-input token is among the tokens only once tokenize has
\* returned, and then it is the last
OneEofLast ==
    /\ \A n \in DOMAIN tokens :
          tokens[n].kind = "EOF"
             <=> (n = Len(tokens) /\ pc # "lex" /\ err.kind # "LexerError")
    /\ (pc \notin {"read", "lex"}
        /\ err.kind \notin {"LexerError", "OSError", "Uncaught"})
          => tokens # <<>> /\ tokens[Len(tokens)].kind = "EOF"

\* a call of next_token has added the token t: from i to j the text holds
\* white space and then the characters of t, of which none is white space
TokenTaken(t, i, j) ==
    /\ SubSeq(tokens', 1, Len(tokens)) = tokens /\ Len(tokens') = Len(tokens) + 1
    /\ i <= j /\ j <= Len(src) /\ TokenChars(<<t>>) <= j - i
    /\ \A n \in i + 1 .. j : IsSpace(src[n]) <=> n <= j - TokenChars(<<t>>)
    /\ \A c \in DOMAIN t.value : ~IsSpace(t.value[c])
    /\ IF t.kind = "HEX" THEN t.value = SubSeq(src, j - Len(t.value) + 1, j)
       ELSE t.value = SubSeq(src, j - TokenChars(<<t>>) + 1, j)

\* C7: Lexer.tokenize terminates on every text. Each call of next_token
\* consumes at least one character (and adds a token that is not the end of
\* input), or returns the end-of-input token, or raises a lexical error; when
\* none is raised, the tokens hold exactly one end-of-input token, the last,
\* and no token stands for white space: what a call passes over before its
\* token is white space and nothing else.
C7_TokenizeTerminates ==
    /\ OneEofLast
    /\ [][/\ OneEofLast'
          /\ pc # "lex" => tokens' = tokens
          /\ pc = "lex" =>
                \/ /\ pc' = "lex" /\ lx'.i > lx.i
                   /\ tokens'[Len(tokens')].kind # "EOF"
                   /\ tokens'[Len(tokens')].value # <<>>
                   /\ TokenTaken(tokens'[Len(tokens')], lx.i, lx'.i)
                \/ /\ pc' = "parse" /\ lx'.i = Len(src)
                   /\ tokens'[Len(tokens')].kind = "EOF"
                   /\ TokenTaken(tokens'[Len(tokens')], lx.i, lx'.i)
                \/ /\ pc' = "done" /\ rc' = 1 /\ err'.kind = "LexerError"
                   /\ tokens' = tokens]_vars
    /\ <>(pc \notin {"read", "lex"})

\* tokenize has returned the tokens of a text that holds two tokens and
\* white space twice
C7_Witness ==
    /\ pc = "parse" /\ Len(tokens) >= 3
    /\ Cardinality({n \in DOMAIN src : IsSpace(src[n])}) >= 2

\* ---- the grammar, as sets of positions
\*   program   := const_decl* value EOF
\*   const_decl := 'var' IDENT '=' value
\*   value     := HEX | array | dict | const_ref
\*   array     := 'array' '(' [ value (',' value)* ] ')'
\*   dict      := '{' (IDENT '=' value ';')* '}'
\*   const_ref := '?' '[' IDENT ']'
\* A position p of a sequence ks of token kinds is the number of kinds before
\* it; Beyond(ks) stands for a derivation that needs kinds after the last.
Beyond(ks) == Len(ks) + 1

\* where a terminal ends that starts at a position of P
GTerm(ks, P, kind) ==
    {p + 1 : p \in {q \in P : q < Len(ks) /\ ks[q + 1] = kind}}
    \cup (IF \E q \in P : q >= Len(ks) THEN {Beyond(ks)} ELSE {})

RECURSIVE GValue(_, _)
RECURSIVE GArrayRest(_, _)
RECURSIVE GEntries(_, _)
RECURSIVE GDecls(_, _)

\* where a value ends that starts at a position of P
GValues(ks, P) == UNION {GValue(ks, p) : p \in P}

\* the positions after value (',' value)*, V holding those found so far
GArrayRest(ks, V) ==
    With(V \cup GValues(ks, GTerm(ks, V, ",")), LAMBDA n :
        IF n = V THEN V ELSE GArrayRest(ks, n))

\* the positions after (IDENT '=' value ';')*, E holding those found so far
GEntries(ks, E) ==
    With(E \cup GTerm(ks, GValues(ks, GTerm(ks, GTerm(ks, E, "IDENT"), "=")), ";"),
         LAMBDA n : IF n = E THEN E ELSE GEntries(ks, n))

\* the positions after const_decl*, D holding those found so far
GDecls(ks, D) ==
    With(D \cup GValues(ks, GTerm(ks, GTerm(ks, GTerm(ks, D, "var"), "IDENT"), "=")),
         LAMBDA n : IF n = D THEN D ELSE GDecls(ks, n))

GValue(ks, p) ==
    IF p >= Len(ks) THEN {Beyond(ks)}
    ELSE IF ks[p + 1] = "HEX" THEN {p + 1}
    ELSE IF ks[p + 1] = "?"
    THEN GTerm(ks, GTerm(ks, GTerm(ks, {p + 1}, "["), "IDENT"), "]")
    ELSE IF ks[p + 1] = "array"
    THEN With(GTerm(ks, {p + 1}, "("), LAMBDA a :
            GTerm(ks, a \cup GArrayRest(ks, GValues(ks, a)), ")"))
    ELSE IF ks[p + 1] = "{"
    THEN GTerm(ks, GEntries(ks, {p + 1}), "}")
    ELSE {}

GProgram(ks) == GTerm(ks, GValues(ks, GDecls(ks, {0})), "EOF")
\* ks is a program of the grammar
Derivable(ks) == Len(ks) \in GProgram(ks)
\* ks, or ks with kinds put after it, is a program of the grammar
Viable(ks) == Derivable(ks) \/ Beyond(ks) \in GProgram(ks)

Kinds == [n \in DOMAIN tokens |-> tokens[n].kind]

\* C8: parse_program succeeds exactly on the token sequences that the
\* grammar derives. When it fails it raises a ParseError at the first
\* offending token: the tokens before it begin a program of the grammar, with
\* it they do not, and with the kind the error expected they do. So a map
\* entry without its semicolon, a trailing comma in an array and a token
\* after the root value (a var declaration too) are parse errors at that
\* token.
C8_ParsesTheGrammar ==
    /\ Parsed =>
          /\ pres.st = "ok" <=> Derivable(Kinds)
          /\ pres.st = "ok" => pres.node.t = "Program"
          /\ pres.st # "ok" =>
                /\ pc = "done" /\ rc = 1 /\ err = pres.err
                /\ err.kind = "ParseError"
                /\ pres.i < Len(tokens)
                /\ err.line = tokens[pres.i + 1].line
                /\ err.col = tokens[pres.i + 1].col
                /\ err.name[2] = Kinds[pres.i + 1]
                /\ Viable(SubSeq(Kinds, 1, pres.i))
                /\ ~Viable(SubSeq(Kinds, 1, pres.i + 1))
                /\ Viable(Append(SubSeq(Kinds, 1, pres.i),
                                 IF err.name[1] = "value" THEN "HEX" ELSE err.name[1]))
    /\ (Parsed /\ infile = Ex_NoSemi) =>
          err.name = <<";", "}">> /\ err.line = 1 /\ err.col = 11
    /\ (Parsed /\ infile = Ex_TrailingComma) =>
          err.name = <<"value", ")">> /\ err.line = 1 /\ err.col = 11
    /\ (Parsed /\ infile = Ex_TrailingVar) =>
          err.name = <<"EOF", "var">> /\ err.line = 1 /\ err.col = 5

\* the digits of every hex token are digits for int()
DigitsAccepted ==
    \A n \in DOMAIN tokens : tokens[n].kind = "HEX" => IntAccepts(tokens[n].value)

\* the part of C8 that holds: parse_program succeeds exactly on the token
\* sequences that the grammar derives and whose hex tokens int() accepts, and
\* a ParseError is one at the first offending token.
C8_ParsesTheGrammarOfAcceptedDigits ==
    Parsed =>
       /\ pres.st = "ok" => Derivable(Kinds)
       /\ (Derivable(Kinds) /\ DigitsAccepted) => pres.st = "ok"
       /\ pres.err.kind = "ParseError" =>
             /\ pres.i < Len(tokens)
             /\ err.line = tokens[pres.i + 1].line
             /\ err.col = tokens[pres.i + 1].col
             /\ Viable(SubSeq(Kinds, 1, pres.i))
             /\ ~Viable(SubSeq(Kinds, 1, pres.i + 1))

\* parse_program has failed on a token sequence that the grammar derives
C8_Witness ==
    Parsed /\ Derivable(Kinds) /\ pres.st = "raise" /\ rc = 3

\* the value node that a node stands for, through the references to
\* constants
RECURSIVE ResolveNode(_)
ResolveNode(node) ==
    IF node.t = "ConstRef"
    THEN ResolveNode(Decls[CHOOSE j \in DOMAIN Decls : Decls[j].name = node.name].value)
    ELSE node

\* text.split("\n")
RECURSIVE SplitLines(_)
SplitLines(text) ==
    IF \A n \in DOMAIN text : text[n] # "\n" THEN <<text>>
    ELSE With(CHOOSE n \in DOMAIN text :
                 text[n] = "\n" /\ \A m \in 1 .. n - 1 : text[m] # "\n",
              LAMBDA n : <<SubSeq(text, 1, n - 1)>>
                         \o SplitLines(SubSeq(text, n + 1, Len(text))))

\* emit_root has returned
Emitted == root_val.t # "none" /\ pc \in {"write", "done"}
RootMap == ResolveNode(pres.node.root)
DistinctKeys(items) == \A n, m \in DOMAIN items : items[n].key = items[m].key => n = m

\* C9: for a root map whose source has n >= 1 pairwise distinct keys the
\* emitted text is n lines, the i-th being the i-th key of the source, " = "
\* and the rendering of the value of that entry, each ended by one newline
\* and nothing after the last; an empty root map gives the empty text; any
\* other root gives the one line "value = " and its rendering, and a newline.
C9_RootLines ==
    Emitted =>
       /\ RootMap.t = "Map" <=> root_val.t = "dict"
       /\ (RootMap.t = "Map" /\ RootMap.items # <<>> /\ DistinctKeys(RootMap.items)) =>
             SplitLines(toml_text) =
                [n \in DOMAIN RootMap.items |->
                    RootMap.items[n].key \o <<" ", "=", " ">>
                    \o EmitValue(EvalValue(consts, RootMap.items[n].value).val)]
                \o << <<>> >>
       /\ (RootMap.t = "Map" /\ RootMap.items = <<>>) => toml_text = <<>>
       /\ RootMap.t # "Map" =>
             SplitLines(toml_text) =
                << <<"v","a","l","u","e"," ","="," ">> \o EmitValue(root_val), <<>> >>

\* a root map of two keys that are not in alphabetical order has been emitted
C9_Witness ==
    /\ Emitted /\ rc = 0 /\ RootMap.t = "Map" /\ Len(RootMap.items) = 2
    /\ RootMap.items[1].key = <<"b">> /\ RootMap.items[2].key = <<"a">>

\* C10: the parser reads self.tokens at no index after that of the
\* end-of-input token, which only the last expect of parse_program consumes;
\* so parse_program returns a Program or raises a ParseError, and run_cli
\* does not return 3.
C10_ProgramOrParseError ==
    /\ Parsed =>
          /\ pres.hi <= Len(tokens) - 1
          /\ pres.i <= Len(tokens)
          /\ pres.i = Len(tokens) <=> pres.st = "ok"
          /\ pres.st = "ok" => pres.node.t = "Program"
          /\ pres.st # "ok" => pres.err.kind = "ParseError"
    /\ rc # 3

\* the part of C10 on the cursor, which holds: self.tokens is read at no
\* index after that of the end-of-input token, which is consumed only when
\* parse_program succeeds, and IndexError is never raised.
C10_CursorInRange ==
    Parsed =>
       /\ pres.hi <= Len(tokens) - 1
       /\ pres.i <= Len(tokens)
       /\ pres.i = Len(tokens) <=> pres.st = "ok"
       /\ pres.st = "ok" => pres.node.t = "Program" /\ pres.hi = Len(tokens) - 1
       /\ pres.err.msg # "IndexError"

\* parse_program has ended in neither a Program nor a ParseError, with the
\* cursor on the end-of-input token
C10_Witness ==
    /\ Parsed /\ pres.st = "raise" /\ pres.err.kind = "Exception"
    /\ pres.i = Len(tokens) - 1 /\ rc = 3

====
